---- MODULE Spec2Model ----
(***************************************************************************)
(* A model of the PDF viewer of src/V01.py: the state of PDFViewer, its    *)
(* event handlers (open_pdf, show_page, zoom_in, zoom_out, fit_to_window,  *)
(* the three mode setters, goto_page, eventFilter, prev_page, next_page,   *)
(* resizeEvent) and the per-pixel colour transform of show_page.           *)
(***************************************************************************)
EXTENDS Integers, FiniteSets, Sequences, TLC

VARIABLES
    pdf_path,       \* self.pdf_path: None or the file last opened
    doc,            \* self.doc: None or the fitz.Document held
    total_pages,    \* self.total_pages
    current_page,   \* self.current_page
    scale,          \* self.scale, a rational <<numerator, denominator>>
    bg_mode,        \* self.bg_mode
    page_widget,    \* what self.page_widget displays
    page_label,     \* the two numbers of self.page_label's text
    page_edit,      \* the text show_page last put into self.page_edit
    bg_style,       \* the mode whose colour the style sheets carry
    dialog,         \* the QMessageBox the last handler showed
    open_handles,   \* the document handles open in the PDF library
    peak_handles,   \* the most handles open at once during the last handler
    alive,          \* FALSE once an uncaught exception has aborted the process
    last,           \* the last handler run, its input and how it ended
    arr,            \* a pixel of the rasterized page (show_page, line 133)
    arr_out         \* the same pixel after the mode processing

vars == <<pdf_path, doc, total_pages, current_page, scale, bg_mode,
          page_widget, page_label, page_edit, bg_style, dialog,
          open_handles, peak_handles, alive, last, arr, arr_out>>

-----------------------------------------------------------------------------
(* Bounds of the model *)

\* the largest page count of a file the user can pick
MaxPages == 2
\* viewport widths and heights run over 1..MaxView
MaxView == 2
\* page widths and heights run over 1..MaxPageDim
MaxPageDim == 1
\* zooming stops when a term of the scale would pass MaxScaleTerm
MaxScaleTerm == 12

(* Program constants *)

\* a channel of the RGB888 image is a uint8
MaxChannel == 255
\* the green offset of the eye mode
GreenOffset == 30
\* the zoom factor 1.2 = ZoomNum / ZoomDen
ZoomNum == 6
ZoomDen == 5
\* the blue factor 0.85 = BlueNum / BlueDen
BlueNum == 17
BlueDen == 20

Modes == {"default", "night", "eye"}
Handles == {"h1", "h2"}

-----------------------------------------------------------------------------
(* Values *)

RECURSIVE Gcd(_, _)
Gcd(a, b) == IF b = 0 THEN a ELSE Gcd(b, a % b)

\* the rational n/d in lowest terms
Rat(n, d) == LET g == Gcd(n, d) IN IF g = 0 THEN <<n, d>> ELSE <<n \div g, d \div g>>

RatLeq(p, q) == p[1] * q[2] <= q[1] * p[2]

RatMin(p, q) == IF RatLeq(p, q) THEN p ELSE q

One == <<1, 1>>

\* a file the dialog can return: one fitz.open rejects, or a PDF of some page count
Files == {[readable |-> FALSE, page_count |-> 0]}
            \cup {[readable |-> TRUE, page_count |-> n] : n \in 0..MaxPages}

\* None, as the value of self.pdf_path and of self.doc
NoPath == [readable |-> FALSE, page_count |-> -1]
NoDoc == [id |-> "none", page_count |-> -1]

\* the text of the page entry: a number, or something int() rejects
NoText == [kind |-> "junk", val |-> 0]
NumText(v) == [kind |-> "int", val |-> v]
Texts == {NoText} \cup {NumText(v) : v \in -1..(MaxPages + 2)}

Cleared == [kind |-> "cleared", id |-> "none", page |-> 0, scale |-> One, mode |-> "default"]
Shown(d, p, s, m) == [kind |-> "page", id |-> d.id, page |-> p, scale |-> s, mode |-> m]

\* the record of a handler run: its name, how it ended ("ok", "noop",
\* "cancel", "dialog" or "uncaught") and, for goto_page, whether int() took
\* the text and the index n it gave
Ended(op, res) == [op |-> op, res |-> res, num |-> FALSE, n |-> 0]
EndedGoto(res, n) == [op |-> "goto_page", res |-> res, num |-> TRUE, n |-> n]

-----------------------------------------------------------------------------
(* Initial state *)

Init ==
    /\ pdf_path = NoPath
    /\ doc = NoDoc
    /\ total_pages = 0
    /\ current_page = 0
    /\ scale = One
    /\ bg_mode = "default"
    /\ page_widget = Cleared
    /\ page_label = <<0, 0>>
    /\ page_edit = NoText
    /\ bg_style = "default"
    /\ dialog = "none"
    /\ open_handles = {}
    /\ peak_handles = 0
    /\ alive = TRUE
    /\ last = Ended("init", "ok")
    /\ arr = <<0, 0, 0>>
    /\ arr_out = <<0, 0, 0>>

-----------------------------------------------------------------------------
(* show_page *)

\* a slip in the guard of line 124: page 0 is taken to be out of range
BlankFromOne(d, cp, tp) == d = NoDoc \/ ~(0 < cp /\ cp < tp)

\* line 124: nothing to render
Blank(d, cp, tp) == d = NoDoc \/ ~(0 <= cp /\ cp < tp)

\* show_page on the state the handler has just written (the primed variables).
\* ok says whether load_page and get_pixmap return (TRUE) or raise (FALSE);
\* they are called only past the guard of line 124, before any widget changes.
show_page(ok) ==
    IF Blank(doc', current_page', total_pages')
    THEN /\ page_widget' = Cleared
         /\ UNCHANGED <<page_label, page_edit, bg_style>>
    ELSE IF ok
         THEN /\ page_widget' = Shown(doc', current_page', scale', bg_mode')
              /\ page_label' = <<current_page' + 1, total_pages'>>
              /\ page_edit' = NumText(current_page' + 1)
              /\ bg_style' = bg_mode'
         ELSE UNCHANGED <<page_widget, page_label, page_edit, bg_style>>

\* whether that call of show_page raises
ShowRaises(ok) == ~Blank(doc', current_page', total_pages') /\ ~ok

\* an exception nobody catches reaches PyQt5, which (no sys.excepthook being
\* installed) calls qFatal and aborts the process
Leave(op, res) ==
    /\ last' = Ended(op, res)
    /\ alive' = (res # "uncaught")

LeaveGoto(res, n) ==
    /\ last' = EndedGoto(res, n)
    /\ alive' = TRUE

\* a handler that opens no document: the handles stay, or go with the process
KeepHandles ==
    /\ open_handles' = IF alive' THEN open_handles ELSE {}
    /\ peak_handles' = Cardinality(open_handles)

\* the end of a handler whose last statement is show_page and which has no try
Render(op) ==
    \E ok \in BOOLEAN :
        /\ show_page(ok)
        /\ Leave(op, IF ShowRaises(ok) THEN "uncaught" ELSE "ok")
        /\ dialog' = "none"
        /\ KeepHandles

\* a handler that returns without touching anything
Skip(op, res, dlg) ==
    /\ UNCHANGED <<pdf_path, doc, total_pages, current_page, scale, bg_mode,
                   page_widget, page_label, page_edit, bg_style>>
    /\ dialog' = dlg
    /\ Leave(op, res)
    /\ KeepHandles

-----------------------------------------------------------------------------
(* The handlers *)

\* the truth value of self.doc: None is false, and so is a Document of
\* length 0 (fitz.Document defines __len__ as its page count)
Truthy(d) == d # NoDoc /\ d.page_count # 0

\* the handle of the Document that fitz.open creates: one not open yet
NewHandle == CHOOSE h \in Handles : h \notin open_handles

\* a slip in open_pdf: the scale of the previous document is kept
OpenScaleKept == scale

\* lines 117 and 118: the page and the scale a new document starts with
OpenPage == 0
OpenScale == One

\* line 113 onwards, for a file fitz.open accepts
Load(f, h) ==
    /\ pdf_path' = f
    /\ doc' = [id |-> h, page_count |-> f.page_count]
    /\ total_pages' = f.page_count
    /\ current_page' = OpenPage
    /\ scale' = OpenScale
    /\ UNCHANGED bg_mode
    /\ \E ok \in BOOLEAN :
        /\ show_page(ok)
        /\ dialog' = IF ShowRaises(ok) THEN "open_failed" ELSE "none"
        /\ Leave("open_pdf", IF ShowRaises(ok) THEN "dialog" ELSE "ok")
    \* the new handle is open from line 113; the old one goes when line 115
    \* drops the last reference to its Document
    /\ peak_handles' = Cardinality(open_handles \cup {h})
    /\ open_handles' = {h}

open_pdf ==
    /\ alive
    /\ \/ Skip("open_pdf", "cancel", "none")
       \/ \E f \in Files :
            IF f.readable
            THEN Load(f, NewHandle)
            ELSE Skip("open_pdf", "dialog", "open_failed")
    /\ UNCHANGED <<arr, arr_out>>

\* a slip in zoom_out: a step of 0.2 is subtracted instead of dividing
ShrunkByStep(s) == Rat(s[1] * ZoomDen - s[2], s[2] * ZoomDen)

\* line 151 and line 155, on the rational scale
Zoomed(s) == Rat(s[1] * ZoomNum, s[2] * ZoomDen)
Shrunk(s) == Rat(s[1] * ZoomDen, s[2] * ZoomNum)

\* the bound of the model on zooming: the terms of the new scale stay small
InBound(s) == s[1] <= MaxScaleTerm /\ s[2] <= MaxScaleTerm

zoom_in ==
    /\ alive
    /\ InBound(Zoomed(scale))
    /\ scale' = Zoomed(scale)
    /\ UNCHANGED <<pdf_path, doc, total_pages, current_page, bg_mode>>
    /\ Render("zoom_in")
    /\ UNCHANGED <<arr, arr_out>>

zoom_out ==
    /\ alive
    /\ InBound(Shrunk(scale))
    /\ scale' = Shrunk(scale)
    /\ UNCHANGED <<pdf_path, doc, total_pages, current_page, bg_mode>>
    /\ Render("zoom_out")
    /\ UNCHANGED <<arr, arr_out>>

\* lines 165 to 167
FitScale(vw, vh, pw, ph) == RatMin(Rat(vw, pw), Rat(vh, ph))

\* the viewport of the scroll area and the rectangle of a page: the layout
\* keeps the viewport from collapsing, and a page has a positive size
ViewSizes == 1..MaxView
PageSizes == 1..MaxPageDim

fit_to_window ==
    /\ alive
    /\ IF doc = NoDoc
       THEN Skip("fit_to_window", "noop", "none")
       ELSE \* line 161: load_page raises when the page is not in the document,
            \* and may raise when it is
            \/ /\ Skip("fit_to_window", "uncaught", "none")
            \/ /\ 0 <= current_page /\ current_page < doc.page_count
               /\ \E vw \in ViewSizes, vh \in ViewSizes, pw \in PageSizes, ph \in PageSizes :
                    /\ InBound(FitScale(vw, vh, pw, ph))
                    /\ scale' = FitScale(vw, vh, pw, ph)
               /\ UNCHANGED <<pdf_path, doc, total_pages, current_page, bg_mode>>
               /\ Render("fit_to_window")
    /\ UNCHANGED <<arr, arr_out>>

\* a slip in the mode setters: the view goes back to the first page
set_mode_rewind(op, m) ==
    /\ alive
    /\ bg_mode' = m
    /\ current_page' = 0
    /\ UNCHANGED <<pdf_path, doc, total_pages, scale>>
    /\ Render(op)
    /\ UNCHANGED <<arr, arr_out>>

set_mode(op, m) ==
    /\ alive
    /\ bg_mode' = m
    /\ UNCHANGED <<pdf_path, doc, total_pages, current_page, scale>>
    /\ Render(op)
    /\ UNCHANGED <<arr, arr_out>>

set_night_mode == set_mode("set_night_mode", "night")

set_eye_mode == set_mode("set_eye_mode", "eye")

set_default_mode == set_mode("set_default_mode", "default")

\* a slip in line 185: the upper bound is inclusive
GotoValidInclusive(d, n, tp) == Truthy(d) /\ 0 <= n /\ n <= tp

\* line 185
GotoValid(d, n, tp) == Truthy(d) /\ 0 <= n /\ n < tp

\* the user leaves the text t in the page entry and presses return (or clicks
\* the button): goto_page reads that text. What the user types is an input of
\* this handler; page_edit keeps only what the program writes.
goto_page(t) ==
    /\ alive
    /\ IF t.kind # "int"
       THEN \* int() raises ValueError
            /\ UNCHANGED <<pdf_path, doc, total_pages, current_page, scale, bg_mode,
                           page_widget, page_label, page_edit, bg_style>>
            /\ dialog' = "invalid_input"
            /\ Leave("goto_page", "dialog")
       ELSE LET n == t.val - 1 IN
            IF GotoValid(doc, n, total_pages)
            THEN /\ current_page' = n
                 /\ UNCHANGED <<pdf_path, doc, total_pages, scale, bg_mode>>
                 /\ \E ok \in BOOLEAN :
                      \* an exception of show_page is caught by line 190
                      /\ IF ShowRaises(ok)
                         THEN /\ UNCHANGED <<page_widget, page_label, page_edit, bg_style>>
                              /\ dialog' = "invalid_input"
                              /\ LeaveGoto("dialog", n)
                         ELSE /\ show_page(ok)
                              /\ dialog' = "none"
                              /\ LeaveGoto("ok", n)
            ELSE /\ UNCHANGED <<pdf_path, doc, total_pages, current_page, scale,
                                bg_mode, page_widget, page_label, page_edit,
                                bg_style>>
                 /\ dialog' = "out_of_range"
                 /\ LeaveGoto("dialog", n)
    /\ KeepHandles
    /\ UNCHANGED <<arr, arr_out>>

\* a slip in line 210: the first page is not held back
PrevAllowedAtZero(cp) == cp >= 0

\* line 210
PrevAllowed(cp) == cp > 0

\* a slip in line 215: the last page is not held back
NextAllowedPastEnd(d, cp, tp) == Truthy(d) /\ cp < tp

\* line 215
NextAllowed(d, cp, tp) == Truthy(d) /\ cp < tp - 1

prev_page ==
    /\ alive
    /\ IF PrevAllowed(current_page)
       THEN /\ current_page' = current_page - 1
            /\ UNCHANGED <<pdf_path, doc, total_pages, scale, bg_mode>>
            /\ Render("prev_page")
       ELSE Skip("prev_page", "noop", "none")
    /\ UNCHANGED <<arr, arr_out>>

next_page ==
    /\ alive
    /\ IF NextAllowed(doc, current_page, total_pages)
       THEN /\ current_page' = current_page + 1
            /\ UNCHANGED <<pdf_path, doc, total_pages, scale, bg_mode>>
            /\ Render("next_page")
       ELSE Skip("next_page", "noop", "none")
    /\ UNCHANGED <<arr, arr_out>>

\* a wheel event over the viewport: ctrl is the Control modifier, dy the
\* sign of angleDelta().y()
eventFilter(ctrl, dy) ==
    IF ctrl
    THEN IF dy > 0 THEN zoom_in ELSE zoom_out
    ELSE IF dy > 0 THEN prev_page ELSE next_page

resizeEvent ==
    /\ alive
    /\ UNCHANGED <<pdf_path, doc, total_pages, current_page, scale, bg_mode>>
    /\ Render("resizeEvent")
    /\ UNCHANGED <<arr, arr_out>>

-----------------------------------------------------------------------------
(* The specification of the viewer *)

Next ==
    \/ open_pdf
    \/ zoom_in
    \/ zoom_out
    \/ fit_to_window
    \/ set_night_mode
    \/ set_eye_mode
    \/ set_default_mode
    \/ \E t \in Texts : goto_page(t)
    \/ \E ctrl \in BOOLEAN, dy \in {-1, 0, 1} : eventFilter(ctrl, dy)
    \/ resizeEvent

Spec == Init /\ [][Next]_vars

-----------------------------------------------------------------------------
(* The mode processing of show_page, lines 133 to 141, on one pixel *)

Channel == 0..MaxChannel

Clip(x, lo, hi) == IF x < lo THEN lo ELSE IF x > hi THEN hi ELSE x

\* line 135, on a uint8
NightChannel(c) == MaxChannel - c

\* a slip in line 139: the sum is taken in uint8 and wraps
EyeGreenWrapped(g) == (g + GreenOffset) % (MaxChannel + 1)

\* line 139 and the astype of line 141: the sum is taken in float32, where
\* it is exact, clipped, and narrowed to uint8
EyeGreen(g) == Clip(g + GreenOffset, 0, MaxChannel)

\* line 140 and the astype of line 141: the product is taken in float32,
\* clipped, and narrowed to uint8, which drops the fraction. For every b in
\* 0..255 the float32 product b * 0.85 has the integer part of b * 17 / 20.
EyeBlue(b) ==
    LET x == b * BlueNum
    IN  IF x >= MaxChannel * BlueDen THEN MaxChannel
        ELSE IF x <= 0 THEN 0 ELSE x \div BlueDen

ModeProcess(px, m) ==
    IF m = "night" THEN <<NightChannel(px[1]), NightChannel(px[2]), NightChannel(px[3])>>
    ELSE IF m = "eye" THEN <<px[1], EyeGreen(px[2]), EyeBlue(px[3])>>
    ELSE px

\* the pixels the rasterizer is taken to produce: greys, and two families in
\* which the channels differ; every channel takes every value
Pixels == {<<c, c, c>> : c \in Channel}
            \cup {<<c, MaxChannel - c, c>> : c \in Channel}
            \cup {<<c, c, MaxChannel - c>> : c \in Channel}

InitEye ==
    /\ Init!1 /\ Init!2 /\ Init!3 /\ Init!4 /\ Init!5
    /\ bg_mode \in Modes
    /\ Init!7 /\ Init!8 /\ Init!9 /\ Init!10 /\ Init!11 /\ Init!12 /\ Init!13
    /\ Init!14 /\ Init!15
    /\ arr \in Pixels
    /\ arr_out = arr

\* lines 133 to 141 on the pixel arr, under the mode in force
ProcessPixel ==
    /\ last.op = "init"
    /\ arr_out' = ModeProcess(arr, bg_mode)
    /\ last' = Ended("show_page", "ok")
    /\ UNCHANGED <<pdf_path, doc, total_pages, current_page, scale, bg_mode,
                   page_widget, page_label, page_edit, bg_style, dialog,
                   open_handles, peak_handles, alive, arr>>

NextEye == ProcessPixel

SpecEye == InitEye /\ [][NextEye]_vars

-----------------------------------------------------------------------------
(* The claims *)

\* the page count of the loaded document, 0 when none is loaded
PageCount == IF doc = NoDoc THEN 0 ELSE doc.page_count

Loaded == doc # NoDoc

\* C1, as stated: whenever a document is loaded, 0 <= current_page <
\* total_pages, whatever its page count (0 included).
C1_PageInRangeAnyCount ==
    Loaded => (0 <= current_page /\ current_page < total_pages)

\* C1, amended: whenever a document of at least one page is loaded,
\* 0 <= current_page < total_pages = its page count; a loaded document of no
\* page has current_page = total_pages = 0.
C1_PageInRange ==
    Loaded =>
        /\ total_pages = doc.page_count
        /\ IF total_pages >= 1
           THEN 0 <= current_page /\ current_page < total_pages
           ELSE current_page = 0

\* C1: a document is loaded and next_page has moved to its last page
C1_Witness ==
    /\ Loaded /\ total_pages >= 2 /\ current_page = total_pages - 1
    /\ last.op = "next_page" /\ last.res = "ok"

\* C2: goto_page with an index n outside [0, page_count) reports the
\* out-of-range error and leaves current_page, scale, mode and the document as
\* they were; with n inside the range (a document being loaded) it sets
\* current_page to n.
C2_GotoPage ==
    [][(last'.op = "goto_page" /\ last'.num) =>
          IF 0 <= last'.n /\ last'.n < PageCount
          THEN current_page' = last'.n
          ELSE /\ dialog' = "out_of_range"
               /\ UNCHANGED <<current_page, scale, bg_mode, doc, pdf_path, total_pages>>]_vars

\* C2: with a document loaded and a page other than the first shown,
\* goto_page has refused an index past the end
C2_Witness ==
    /\ last.op = "goto_page" /\ last.num /\ dialog = "out_of_range"
    /\ Loaded /\ last.n >= total_pages /\ current_page = 1

\* C3: at no point of a handler is more than one document handle open.
C3_OneHandle == peak_handles <= 1

\* C4: an open request that ends in the error dialog leaves doc, pdf_path,
\* total_pages, current_page and scale as they were.
C4_FailedOpenKeepsState ==
    [][(last'.op = "open_pdf" /\ dialog' = "open_failed") =>
          UNCHANGED <<doc, pdf_path, total_pages, current_page, scale>>]_vars

\* C5: every successful open ends with current_page = 0 and scale = 1.0 and
\* leaves the mode as it was.
C5_OpenResets ==
    [][(last'.op = "open_pdf" /\ last'.res = "ok") =>
          /\ current_page' = 0
          /\ scale' = <<1, 1>>
          /\ bg_mode' = bg_mode]_vars

\* C5: a document has been opened over another one, in night mode
C5_Witness ==
    /\ last.op = "open_pdf" /\ last.res = "ok"
    /\ peak_handles = 2 /\ bg_mode = "night" /\ total_pages >= 1

\* a handler that did nothing and reported nothing
NoOp ==
    /\ dialog' = "none"
    /\ last'.res = "noop"
    /\ UNCHANGED <<current_page, scale, bg_mode, doc, pdf_path, total_pages>>

\* C6, as stated, for a loaded document: next_page at current_page =
\* page_count - 1 and prev_page at current_page = 0 are no-ops; otherwise they
\* change current_page by exactly +1 and -1.
C6_StepOrNoOpAnyCount ==
    [][/\ (Loaded /\ last'.op = "next_page") =>
            IF current_page = PageCount - 1 THEN NoOp
            ELSE current_page' = current_page + 1
       /\ (Loaded /\ last'.op = "prev_page") =>
            IF current_page = 0 THEN NoOp
            ELSE current_page' = current_page - 1]_vars

\* C6, amended: next_page is a no-op when no document is loaded, when the
\* document has no page and when current_page = page_count - 1, and prev_page
\* when current_page = 0; otherwise they change current_page by exactly +1 and
\* -1 and leave scale, mode and the document as they were.
C6_StepOrNoOp ==
    [][/\ last'.op = "next_page" =>
            IF PageCount = 0 \/ current_page = PageCount - 1 THEN NoOp
            ELSE /\ current_page' = current_page + 1
                 /\ UNCHANGED <<scale, bg_mode, doc, pdf_path, total_pages>>
       /\ last'.op = "prev_page" =>
            IF current_page = 0 THEN NoOp
            ELSE /\ current_page' = current_page - 1
                 /\ UNCHANGED <<scale, bg_mode, doc, pdf_path, total_pages>>]_vars

\* C6: next_page has been a no-op on the last page of a document of several
\* pages
C6_Witness ==
    /\ last.op = "next_page" /\ last.res = "noop"
    /\ Loaded /\ total_pages >= 2 /\ current_page = total_pages - 1

\* round(n / d) for n >= 0 and d > 0, halves going to the even neighbour
Round(n, d) ==
    LET q == n \div d
        r == n % d
    IN  IF 2 * r < d THEN q
        ELSE IF 2 * r > d THEN q + 1
        ELSE IF q % 2 = 0 THEN q ELSE q + 1

Processed == last.op = "show_page"

\* C7, as stated: in the eye mode, out.green = clamp(in.green + 30, 0, 255),
\* out.blue = clamp(round(in.blue * 0.85), 0, 255) and out.red = in.red.
C7_EyeRounded ==
    (Processed /\ bg_mode = "eye") =>
        /\ arr_out[1] = arr[1]
        /\ arr_out[2] = Clip(arr[2] + 30, 0, 255)
        /\ arr_out[3] = Clip(Round(arr[3] * 85, 100), 0, 255)

\* C7, amended: in the eye mode, out.green = clamp(in.green + 30, 0, 255),
\* out.blue is in.blue * 0.85 with its fraction dropped (the largest integer
\* not above it), and out.red = in.red.
C7_EyeTruncated ==
    (Processed /\ bg_mode = "eye") =>
        /\ arr_out[1] = arr[1]
        /\ arr_out[2] = (IF arr[2] + 30 > 255 THEN 255 ELSE arr[2] + 30)
        /\ arr_out[3] \in 0..255
        /\ arr_out[3] * 100 <= arr[3] * 85
        /\ arr[3] * 85 < (arr_out[3] + 1) * 100

\* C7: the eye mode has processed a pixel whose green saturates and whose
\* scaled blue, 7 * 0.85 = 5.95, has a fraction above one half
C7_Witness ==
    /\ Processed /\ bg_mode = "eye"
    /\ arr[2] = 248 /\ arr_out[2] = 255
    /\ arr[3] = 7 /\ arr_out[3] = 5

Rendering == {"open_pdf", "goto_page", "next_page", "prev_page", "zoom_in",
              "zoom_out", "fit_to_window", "set_night_mode", "set_eye_mode",
              "set_default_mode", "resizeEvent"}

ShowsCurrent ==
    /\ page_widget.kind = "page"
    /\ page_widget.id = doc.id
    /\ page_widget.page = current_page
    /\ page_widget.scale = scale
    /\ page_widget.mode = bg_mode

\* C8, as stated: with a document loaded, an operation that succeeds leaves
\* the display showing current_page at scale in bg_mode; with no document
\* loaded, a render leaves the display cleared.
C8_RenderedAnyCount ==
    (last.op \in Rendering /\ last.res = "ok") =>
        IF Loaded THEN ShowsCurrent ELSE page_widget.kind = "cleared"

\* C8, amended: with a document of at least one page loaded, an operation
\* that succeeds leaves the display showing current_page at scale in bg_mode;
\* with no document loaded, or a document of no page, a render leaves the
\* display cleared.
C8_Rendered ==
    (last.op \in Rendering /\ last.res = "ok") =>
        IF Loaded /\ PageCount >= 1 THEN ShowsCurrent
        ELSE page_widget.kind = "cleared"

\* C8: goto_page has succeeded on a page other than the first, at a scale
\* other than 1.0 and in a mode other than the default
C8_Witness ==
    /\ last.op = "goto_page" /\ last.res = "ok"
    /\ ShowsCurrent /\ current_page = 1 /\ scale # <<1, 1>> /\ bg_mode = "eye"

\* C9: scale is strictly positive in every reachable state.
C9_ScalePositive == scale[1] > 0 /\ scale[2] > 0

\* C9: zoom_out has taken a scale set by fit_to_window below it
C9_Witness ==
    /\ last.op = "zoom_out" /\ scale = <<5, 3>>

ModeOps == {"set_night_mode", "set_eye_mode", "set_default_mode"}
ZoomOps == {"zoom_in", "zoom_out", "fit_to_window"}
PageOps == {"goto_page", "next_page", "prev_page"}

\* C10: a mode change leaves current_page, scale and the document as they
\* were; zoom_in, zoom_out and fit_to_window leave current_page, mode and the
\* document; goto_page, next_page and prev_page leave scale, mode and the
\* document.
C10_Frames ==
    [][/\ last'.op \in ModeOps =>
            UNCHANGED <<current_page, scale, doc, pdf_path, total_pages>>
       /\ last'.op \in ZoomOps =>
            UNCHANGED <<current_page, bg_mode, doc, pdf_path, total_pages>>
       /\ last'.op \in PageOps =>
            UNCHANGED <<scale, bg_mode, doc, pdf_path, total_pages>>]_vars

\* C10: a mode change has happened on a page other than the first, at a
\* scale other than 1.0
C10_Witness ==
    /\ last.op = "set_night_mode" /\ last.res = "ok" /\ bg_mode = "night"
    /\ Loaded /\ current_page = 1 /\ scale # <<1, 1>>

====
